---------------------------- MODULE Spec2Model ----------------------------
(***************************************************************************)
(* Model of dupe-finder.py: correlation of a secretsdump/pwdump credential *)
(* dump with a cracked-hash dictionary.                                    *)
(*                                                                         *)
(* A Python str is a sequence of one-character strings.  A text file is    *)
(* the str of its whole content, lines terminated by "\n".  The Cyrillic   *)
(* literals of the report ("имеют", "имеет", the "no matches" message) are *)
(* not representable in a TLA+ string; each is one opaque element of the   *)
(* str, written in transliteration.                                        *)
(***************************************************************************)
EXTENDS Integers, Sequences, FiniteSets, TLC

(***************************************************************************)
(* Bounds of the model and constants of the program.                       *)
(***************************************************************************)
\* number of lines of the dump file
MaxDumpLines == 3
\* number of lines of the dictionary file
MaxCrackedLines == 2
\* HEX32: {32}
HexLen == 32

(***************************************************************************)
(* str helpers (Python built-ins used by the program).                     *)
(***************************************************************************)
Min(S) == CHOOSE x \in S : \A y \in S : x <= y
Rep(c, n) == [i \in 1..n |-> c]

None == "None"
NL == "\n"

IsSpace(c) == c \in {" ", "\t", "\n"}
IsDigit(c) == c \in {"0", "1", "2", "3", "4", "5", "6", "7", "8", "9"}
IsHex(c) == IsDigit(c) \/ c \in {"a", "b", "c", "d", "e", "f", "A", "B", "C", "D", "E", "F"}

\* str.lower(), one character (it is applied to hexadecimal digits only)
lower_char(c) ==
  CASE c = "A" -> "a" [] c = "B" -> "b" [] c = "C" -> "c" [] c = "D" -> "d"
    [] c = "E" -> "e" [] c = "F" -> "f"
    [] OTHER -> c

\* str.lower()
lower(s) == [i \in 1..Len(s) |-> lower_char(s[i])]

\* str.lstrip()
RECURSIVE lstrip(_)
lstrip(s) == IF s # <<>> /\ IsSpace(s[1]) THEN lstrip(Tail(s)) ELSE s

\* str.rstrip()
RECURSIVE rstrip(_)
rstrip(s) == IF s # <<>> /\ IsSpace(s[Len(s)]) THEN rstrip(SubSeq(s, 1, Len(s) - 1)) ELSE s

\* str.strip()
strip(s) == lstrip(rstrip(s))

\* sep in s
contains(s, sep) == \E i \in 1..Len(s) : s[i] = sep

\* str.split(sep)
RECURSIVE split(_, _)
split(s, sep) ==
  IF ~contains(s, sep) THEN <<s>>
  ELSE LET p == Min({i \in 1..Len(s) : s[i] = sep})
       IN  <<SubSeq(s, 1, p - 1)>> \o split(SubSeq(s, p + 1, Len(s)), sep)

\* str.split(sep, 1)
split_1(s, sep) ==
  IF ~contains(s, sep) THEN <<s>>
  ELSE LET p == Min({i \in 1..Len(s) : s[i] = sep})
       IN  <<SubSeq(s, 1, p - 1), SubSeq(s, p + 1, Len(s))>>

\* sep.join(parts)
RECURSIVE join(_, _)
join(sep, parts) ==
  IF parts = <<>> THEN <<>>
  ELSE IF Len(parts) = 1 THEN parts[1]
  ELSE parts[1] \o <<sep>> \o join(sep, Tail(parts))

\* iteration over a text file: the lines with their terminators; a final
\* line without terminator is a line, an empty rest is not.
RECURSIVE readlines(_)
readlines(text) ==
  IF text = <<>> THEN <<>>
  ELSE IF ~contains(text, NL) THEN <<text>>
  ELSE LET p == Min({i \in 1..Len(text) : text[i] = NL})
       IN  <<SubSeq(text, 1, p)>> \o readlines(SubSeq(text, p + 1, Len(text)))

\* writer(s), i.e. print(s, file=f): the text of f afterwards
writer(f, s) == f \o s \o <<NL>>

\* code point of a character of a lowercased hash
ord(c) ==
  CASE c = "0" -> 48 [] c = "1" -> 49 [] c = "2" -> 50 [] c = "3" -> 51
    [] c = "4" -> 52 [] c = "5" -> 53 [] c = "6" -> 54 [] c = "7" -> 55
    [] c = "8" -> 56 [] c = "9" -> 57 [] c = "a" -> 97 [] c = "b" -> 98
    [] c = "c" -> 99 [] c = "d" -> 100 [] c = "e" -> 101 [] c = "f" -> 102

\* a < b on str
str_lt(a, b) ==
  \E i \in 1..(Len(b)) :
     /\ \A j \in 1..(i - 1) : j <= Len(a) /\ a[j] = b[j]
     /\ \/ i = Len(a) + 1
        \/ i <= Len(a) /\ ord(a[i]) < ord(b[i])

(***************************************************************************)
(* The regular expressions.                                                *)
(***************************************************************************)
NoMatch == <<"NoMatch">>

\* HEX32.match(s): group(1), or NoMatch
HEX32(s) ==
  IF Len(s) >= HexLen /\ \A i \in 1..HexLen : IsHex(s[i])
  THEN SubSeq(s, 1, HexLen)
  ELSE NoMatch

\* variant: group(0), the match with the whitespace that \s* takes
PWDUMP_LINE_RE_group0(line) ==
  LET r == rstrip(line)
      m == Len(r)
      colons == {i \in 1..m : r[i] = ":"}
  IN  IF /\ m >= 3
         /\ r[m] = ":" /\ r[m - 1] = ":" /\ r[m - 2] = ":"
         /\ \E i, j, k \in colons :
               /\ i + 1 < j /\ j < k /\ k < m - 2
               /\ \A d \in (i + 1)..(j - 1) : IsDigit(r[d])
      THEN line
      ELSE NoMatch

\* PWDUMP_LINE_RE on one line of the text (re.MULTILINE: ^ and $ anchor at
\* the line's ends, "." matches no newline): group(1), or NoMatch.  r is the
\* line without the whitespace that \s* takes; the final ":::" is r's end.
PWDUMP_LINE_RE(line) ==
  LET r == rstrip(line)
      m == Len(r)
      colons == {i \in 1..m : r[i] = ":"}
  IN  IF /\ m >= 3
         /\ r[m] = ":" /\ r[m - 1] = ":" /\ r[m - 2] = ":"
         /\ \E i, j, k \in colons :
               /\ i + 1 < j /\ j < k /\ k < m - 2
               /\ \A d \in (i + 1)..(j - 1) : IsDigit(r[d])
      THEN r
      ELSE NoMatch

\* [m.group(1) for m in PWDUMP_LINE_RE.finditer(text)]
extract_pwdump_lines_from_secretsdump(text) ==
  SelectSeq([i \in 1..Len(split(text, NL)) |-> PWDUMP_LINE_RE(split(text, NL)[i])],
            LAMBDA g : g # NoMatch)

(***************************************************************************)
(* The input files the model draws from.                                   *)
(***************************************************************************)
HashA_upper == <<"C", "C", "3", "6">> \o Rep("F", HexLen - 4)
HashA_lower == <<"c", "c", "3", "6">> \o Rep("f", HexLen - 4)
HashA_mixed == <<"c", "C", "3", "6">> \o Rep("F", HexLen - 4)
HashB == <<"0", "B">> \o Rep("9", HexLen - 2)
HashB_lower == <<"0", "b">> \o Rep("9", HexLen - 2)
HashC == <<"c", "c", "3", "5">> \o Rep("f", HexLen - 4)
NotHex == Rep("a", HexLen - 1) \o <<"g">>

alice == <<"a", "l", "i", "c", "e">>
bob == <<"b", "o", "b">>
carol == <<"c", "a", "r", "o", "l">>
dave == <<"d", "a", "v", "e">>
LM == <<"L", "M">>

\* lines of a dump file: user:RID:LM:NTLM:::
dump_alice == alice \o <<":", "1", "0", ":">> \o LM \o <<":">> \o HashA_upper \o <<":", ":", ":">>
dump_bob == bob \o <<":", "1", "1", ":">> \o LM \o <<":">> \o HashA_lower \o <<":", ":", ":">>
\* alice again, the same hash in another case, whitespace around the fields
dump_alice2 ==
  <<" ">> \o alice \o <<" ", ":", "1", "2", ":">> \o LM \o <<":", " ">> \o HashA_mixed
    \o <<":", ":", ":", " ">>
dump_carol == carol \o <<":", "1", "3", ":">> \o LM \o <<":">> \o HashB \o <<":", ":", ":">>
\* four fields and a hash, but no numeric RID and no trailing ":::"
dump_dave == dave \o <<":", "x", ":">> \o LM \o <<":">> \o HashC
dump_comment == <<"#">> \o bob \o <<":", "1", "4", ":">> \o LM \o <<":">> \o HashB \o <<":", ":", ":">>
dump_blank == <<" ">>
\* three fields
dump_short == carol \o <<":", "1", "5", ":">> \o HashA_lower
dump_nothex == dave \o <<":", "1", "6", ":">> \o LM \o <<":">> \o NotHex \o <<":", ":", ":">>

DumpPool ==
  { dump_alice, dump_bob, dump_alice2, dump_carol, dump_dave, dump_comment, dump_blank,
    dump_short, dump_nothex }

\* lines of a dictionary file: NTLM:password
cracked_A == HashA_lower \o <<":", "S", "2", "4">>
\* the same hash in upper case, a password with colons and whitespace around
cracked_A2 == HashA_upper \o <<":", " ", "p", ":", "w", ":", " ">>
cracked_B == HashB_lower \o <<":", "h", "2">>
cracked_C == HashC \o <<":", "c", "3">>
cracked_comment == <<"#">> \o HashB_lower \o <<":", "x">>
cracked_nocolon == HashB_lower
cracked_nothex == NotHex \o <<":", "p">>

CrackedPool ==
  { cracked_A, cracked_A2, cracked_B, cracked_C, cracked_comment, cracked_nocolon,
    cracked_nothex }

\* the sequences over S of length at most n
SeqUpTo(S, n) == UNION {[1..k -> S] : k \in 0..n}

\* the text of the file with these lines
RECURSIVE FileOf(_)
FileOf(lines) ==
  IF lines = <<>> THEN <<>> ELSE lines[1] \o <<NL>> \o FileOf(Tail(lines))

\* The runs: every dump of at most MaxDumpLines lines against a dictionary
\* with an entry for each hash, and two fixed dumps against every dictionary
\* of at most MaxCrackedLines lines.
Inputs ==
  (SeqUpTo(DumpPool, MaxDumpLines) \X {<<cracked_A, cracked_B, cracked_C>>})
  \cup
  ({<<dump_alice, dump_bob, dump_carol>>, <<dump_dave, dump_carol>>}
     \X SeqUpTo(CrackedPool, MaxCrackedLines))

\* args.output
OutputArgs == {None, "result.txt"}

(***************************************************************************)
(* The state of one run of main().                                         *)
(***************************************************************************)
VARIABLES
  file_secretsdump,   \* content of the file args.secretsdump
  file_cracked,       \* content of the file args.cracked
  args_output,        \* args.output
  pc,                 \* position in main()
  n,                  \* iterations done of the loop in progress
  extracted_lines,
  pwdump_stream,      \* content of the stream handed to parse_pwdump
  by_hash,            \* dict in insertion order: sequence of [h, users]
  cracked,            \* dict: function from the keys
  out_fp,             \* None, "open" or "closed"
  items,
  file_output,        \* content of the file args.output
  stdout,
  stderr

vars ==
  <<file_secretsdump, file_cracked, args_output, pc, n, extracted_lines, pwdump_stream,
    by_hash, cracked, out_fp, items, file_output, stdout, stderr>>

Init ==
  /\ \E in \in Inputs :
        /\ file_secretsdump = FileOf(in[1])
        /\ file_cracked = FileOf(in[2])
  /\ args_output \in OutputArgs
  /\ pc = "extract"
  /\ n = 0
  /\ extracted_lines = <<>>
  /\ pwdump_stream = <<>>
  /\ by_hash = <<>>
  /\ cracked = <<>>
  /\ out_fp = None
  /\ items = <<>>
  /\ file_output = <<>>
  /\ stdout = <<>>
  /\ stderr = <<>>

(***************************************************************************)
(* parse_pwdump and parse_cracked, one line at a time.                     *)
(***************************************************************************)
keys(d) == {d[i].h : i \in 1..Len(d)}
index(d, h) == CHOOSE i \in 1..Len(d) : d[i].h = h
users_of(d, h) == d[index(d, h)].users
in_list(u, l) == \E i \in 1..Len(l) : l[i] = u

\* "continue": the line adds nothing
Skip == [skip |-> TRUE]
skipped(r) == "skip" \in DOMAIN r

\* variant: the hash as written, not lowercased
pwdump_record_no_lower(raw) ==
  LET line == strip(raw)
  IN  IF line = <<>> \/ line[1] = "#" THEN Skip
      ELSE LET parts == split(line, ":")
           IN  IF Len(parts) < 4 THEN Skip
               ELSE LET m == HEX32(strip(parts[4]))
                    IN  IF m = NoMatch THEN Skip
                        ELSE [user |-> strip(parts[1]), h |-> m]

\* variant: comment lines are parsed like the others
pwdump_record_no_comment(raw) ==
  LET line == strip(raw)
  IN  IF line = <<>> THEN Skip
      ELSE LET parts == split(line, ":")
           IN  IF Len(parts) < 4 THEN Skip
               ELSE LET m == HEX32(strip(parts[4]))
                    IN  IF m = NoMatch THEN Skip
                        ELSE [user |-> strip(parts[1]), h |-> lower(m)]

\* the (user, hash) of a dump line, or Skip
pwdump_record(raw) ==
  LET line == strip(raw)
  IN  IF line = <<>> \/ line[1] = "#" THEN Skip
      ELSE LET parts == split(line, ":")
           IN  IF Len(parts) < 4 THEN Skip
               ELSE LET user == strip(parts[1])
                        ntlm_raw == strip(parts[4])
                        m == HEX32(ntlm_raw)
                    IN  IF m = NoMatch THEN Skip
                        ELSE [user |-> user, h |-> lower(m)]

\* variant: by_hash[h].append(user) without the membership test
append_user_always(d, h, user) ==
  IF h \notin keys(d) THEN Append(d, [h |-> h, users |-> <<user>>])
  ELSE [d EXCEPT ![index(d, h)].users = Append(@, user)]

\* if user not in by_hash[h]: by_hash[h].append(user)
append_user(d, h, user) ==
  IF h \notin keys(d) THEN Append(d, [h |-> h, users |-> <<user>>])
  ELSE IF in_list(user, users_of(d, h)) THEN d
  ELSE [d EXCEPT ![index(d, h)].users = Append(@, user)]

\* one iteration of the loop of parse_pwdump
parse_pwdump_line(d, raw) ==
  LET r == pwdump_record(raw)
  IN  IF skipped(r) THEN d ELSE append_user(d, r.h, r.user)

\* variant: line.split(':') and the second part as the password
cracked_record_split_all(raw) ==
  LET line == strip(raw)
  IN  IF line = <<>> \/ line[1] = "#" \/ ~contains(line, ":") THEN Skip
      ELSE LET hp == split(line, ":")
               m == HEX32(strip(hp[1]))
           IN  IF m = NoMatch THEN Skip
               ELSE [h |-> lower(m), pw |-> strip(hp[2])]

\* the (hash, password) of a dictionary line, or Skip
cracked_record(raw) ==
  LET line == strip(raw)
  IN  IF line = <<>> \/ line[1] = "#" \/ ~contains(line, ":") THEN Skip
      ELSE LET hp == split_1(line, ":")
               m == HEX32(strip(hp[1]))
           IN  IF m = NoMatch THEN Skip
               ELSE [h |-> lower(m), pw |-> strip(hp[2])]

\* variant: cracked.setdefault(h, pw), the first line wins
dict_set_first(d, h, pw) == [k \in (DOMAIN d) \cup {h} |-> IF k \in DOMAIN d THEN d[k] ELSE pw]

\* cracked[h] = pw
dict_set(d, h, pw) == [k \in (DOMAIN d) \cup {h} |-> IF k = h THEN pw ELSE d[k]]

\* one iteration of the loop of parse_cracked
parse_cracked_line(d, raw) ==
  LET r == cracked_record(raw)
  IN  IF skipped(r) THEN d ELSE dict_set(d, r.h, r.pw)

(***************************************************************************)
(* Filtering, sorting and the report.                                      *)
(***************************************************************************)
\* variant: only groups of two users or more
select_items_min2(d, c) == SelectSeq(d, LAMBDA kv : kv.h \in DOMAIN c /\ Len(kv.users) >= 2)

\* [(h, users) for h, users in by_hash.items() if h in cracked]
select_items(d, c) == SelectSeq(d, LAMBDA kv : kv.h \in DOMAIN c)

\* variant: the size alone as the key
sort_key_size_only(kv) == <<-Len(kv.users), <<>>>>

\* key=lambda kv: (-len(kv[1]), kv[0])
sort_key(kv) == <<-Len(kv.users), kv.h>>

\* a < b on the keys (tuples compare item by item)
key_lt(a, b) == a[1] < b[1] \/ (a[1] = b[1] /\ str_lt(a[2], b[2]))

\* list.sort(key=...) is stable: an element goes after those whose key is
\* not greater
RECURSIVE insert_sorted(_, _)
insert_sorted(x, l) ==
  IF l = <<>> THEN <<x>>
  ELSE IF key_lt(sort_key(x), sort_key(l[1])) THEN <<x>> \o l
  ELSE <<l[1]>> \o insert_sorted(x, Tail(l))

RECURSIVE sort_items(_)
sort_items(l) ==
  IF l = <<>> THEN <<>>
  ELSE insert_sorted(l[Len(l)], sort_items(SubSeq(l, 1, Len(l) - 1)))

\* the literals of the report, each one element
MSG == <<"Podkhodyashchikh zapisey s izvestnymi parolyami ne naydeno.">>
VERB_PLURAL == <<"imeyut">>
VERB_SINGULAR == <<"imeet">>
LABEL == <<" parol i NTLM - ">>

\* f"{verb} пароль и NTLM - {h}:{cracked[h]}\n"
summary(h, users, c) ==
  (IF Len(users) # 1 THEN VERB_PLURAL ELSE VERB_SINGULAR)
    \o LABEL \o h \o <<":">> \o c[h] \o <<NL>>

\* for u in users: writer(u)
RECURSIVE write_users(_, _)
write_users(f, users) ==
  IF users = <<>> THEN f ELSE write_users(writer(f, users[1]), Tail(users))

\* variant: the summary line before the usernames
write_group_summary_first(f, kv, c) ==
  write_users(writer(f, summary(kv.h, kv.users, c)), kv.users)

\* the body of "for h, users in items"
write_group(f, kv, c) == writer(write_users(f, kv.users), summary(kv.h, kv.users, c))

(***************************************************************************)
(* The steps of main().                                                    *)
(***************************************************************************)
\* lines 109-115: extraction, or the file itself when nothing is extracted
Extract ==
  /\ pc = "extract"
  /\ extracted_lines' = extract_pwdump_lines_from_secretsdump(file_secretsdump)
  /\ pwdump_stream' = IF extracted_lines' # <<>>
                         THEN join(NL, extracted_lines')
                         ELSE file_secretsdump
  /\ pc' = "parse_pwdump"
  /\ n' = 0
  /\ UNCHANGED <<file_secretsdump, file_cracked, args_output, by_hash, cracked, out_fp,
                 items, file_output, stdout, stderr>>

\* parse_pwdump: one line of the stream
ParsePwdumpLine ==
  /\ pc = "parse_pwdump"
  /\ n < Len(readlines(pwdump_stream))
  /\ by_hash' = parse_pwdump_line(by_hash, readlines(pwdump_stream)[n + 1])
  /\ n' = n + 1
  /\ UNCHANGED <<file_secretsdump, file_cracked, args_output, pc, extracted_lines,
                 pwdump_stream, cracked, out_fp, items, file_output, stdout, stderr>>

\* parse_pwdump returns, the stream is closed
ParsePwdumpReturn ==
  /\ pc = "parse_pwdump"
  /\ n = Len(readlines(pwdump_stream))
  /\ pc' = "parse_cracked"
  /\ n' = 0
  /\ UNCHANGED <<file_secretsdump, file_cracked, args_output, extracted_lines,
                 pwdump_stream, by_hash, cracked, out_fp, items, file_output, stdout,
                 stderr>>

\* parse_cracked: one line of the dictionary
ParseCrackedLine ==
  /\ pc = "parse_cracked"
  /\ n < Len(readlines(file_cracked))
  /\ cracked' = parse_cracked_line(cracked, readlines(file_cracked)[n + 1])
  /\ n' = n + 1
  /\ UNCHANGED <<file_secretsdump, file_cracked, args_output, pc, extracted_lines,
                 pwdump_stream, by_hash, out_fp, items, file_output, stdout, stderr>>

\* parse_cracked returns; lines 125-136: the writer, the filter and the sort
Correlate ==
  /\ pc = "parse_cracked"
  /\ n = Len(readlines(file_cracked))
  /\ out_fp' = IF args_output # None THEN "open" ELSE None
  /\ items' = sort_items(select_items(by_hash, cracked))
  /\ pc' = "report"
  /\ n' = 0
  /\ UNCHANGED <<file_secretsdump, file_cracked, args_output, extracted_lines,
                 pwdump_stream, by_hash, cracked, file_output, stdout, stderr>>

\* variant: the message through writer() in both cases
NoMatches_writer ==
  /\ pc = "report"
  /\ items = <<>>
  /\ IF out_fp # None
        THEN /\ file_output' = writer(file_output, MSG)
             /\ out_fp' = "closed"
             /\ UNCHANGED <<stdout, stderr>>
        ELSE /\ stdout' = writer(stdout, MSG)
             /\ UNCHANGED <<file_output, out_fp, stderr>>
  /\ pc' = "done"
  /\ UNCHANGED <<file_secretsdump, file_cracked, args_output, n, extracted_lines,
                 pwdump_stream, by_hash, cracked, items>>

\* lines 138-146: nothing to report
NoMatches ==
  /\ pc = "report"
  /\ items = <<>>
  /\ IF out_fp # None
        THEN /\ file_output' = writer(file_output, MSG)
             /\ out_fp' = "closed"
             /\ UNCHANGED <<stdout, stderr>>
        ELSE /\ stderr' = writer(stderr, MSG)
             /\ UNCHANGED <<file_output, out_fp, stdout>>
  /\ pc' = "done"
  /\ UNCHANGED <<file_secretsdump, file_cracked, args_output, n, extracted_lines,
                 pwdump_stream, by_hash, cracked, items>>

\* lines 148-152: one group of the report
WriteGroup ==
  /\ pc = "report"
  /\ n < Len(items)
  /\ IF out_fp # None
        THEN /\ file_output' = write_group(file_output, items[n + 1], cracked)
             /\ UNCHANGED stdout
        ELSE /\ stdout' = write_group(stdout, items[n + 1], cracked)
             /\ UNCHANGED file_output
  /\ n' = n + 1
  /\ UNCHANGED <<file_secretsdump, file_cracked, args_output, pc, extracted_lines,
                 pwdump_stream, by_hash, cracked, out_fp, items, stderr>>

\* lines 154-155: the report is complete
Finish ==
  /\ pc = "report"
  /\ items # <<>>
  /\ n = Len(items)
  /\ out_fp' = IF out_fp # None THEN "closed" ELSE None
  /\ pc' = "done"
  /\ UNCHANGED <<file_secretsdump, file_cracked, args_output, n, extracted_lines,
                 pwdump_stream, by_hash, cracked, items, file_output, stdout, stderr>>

Next ==
  \/ Extract
  \/ ParsePwdumpLine
  \/ ParsePwdumpReturn
  \/ ParseCrackedLine
  \/ Correlate
  \/ NoMatches
  \/ WriteGroup
  \/ Finish

Spec == Init /\ [][Next]_vars

(***************************************************************************)
(* Reading the inputs and the report back, for the properties.             *)
(***************************************************************************)
\* the report: the output file with -o, standard output otherwise
Report == IF args_output # None THEN file_output ELSE stdout

IsSummaryLine(l) == Len(l) >= 2 /\ l[2] = LABEL[1]

\* The groups of a report, read from its lines: the lines before a summary
\* line are the usernames, the summary line is <verb><label><hash>:<password>
\* and the line after it is the blank line that ends the record.
RECURSIVE parse_report(_, _)
parse_report(lines, acc) ==
  IF lines = <<>> THEN <<>>
  ELSE IF IsSummaryLine(lines[1])
  THEN <<[verb |-> lines[1][1],
          h |-> SubSeq(lines[1], 3, 2 + HexLen),
          colon |-> lines[1][3 + HexLen],
          pw |-> SubSeq(lines[1], 4 + HexLen, Len(lines[1])),
          users |-> acc,
          blank |-> Len(lines) >= 2 /\ lines[2] = <<>>]>>
         \o parse_report(IF Len(lines) >= 2 THEN Tail(Tail(lines)) ELSE <<>>, <<>>)
  ELSE parse_report(Tail(lines), Append(acc, lines[1]))

Reported == parse_report(split(Report, NL), <<>>)
ReportedHashes == {Reported[i].h : i \in 1..Len(Reported)}

\* the lines of the stream and of the dictionary, as the parsers read them
StreamLines == readlines(pwdump_stream)
DictLines == readlines(file_cracked)

\* how many lines of the stream and of the dictionary have been parsed
StreamDone ==
  IF pc = "extract" THEN 0 ELSE IF pc = "parse_pwdump" THEN n ELSE Len(StreamLines)
DictDone ==
  IF pc \in {"extract", "parse_pwdump"} THEN 0
  ELSE IF pc = "parse_cracked" THEN n ELSE Len(DictLines)

NoUpper(s) == \A i \in 1..Len(s) : s[i] \notin {"A", "B", "C", "D", "E", "F"}
upper_char(c) ==
  CASE c = "a" -> "A" [] c = "b" -> "B" [] c = "c" -> "C" [] c = "d" -> "D"
    [] c = "e" -> "E" [] c = "f" -> "F" [] OTHER -> c
\* a hash with its letters in upper case: two hashes are equal up to letter
\* case when their folds are equal
Fold(s) == [i \in 1..Len(s) |-> upper_char(s[i])]
CaseEq(a, b) == Fold(a) = Fold(b)

NumColons(s) == Cardinality({i \in 1..Len(s) : s[i] = ":"})
AllHex(s) == \A i \in 1..Len(s) : IsHex(s[i])
\* the 32 characters a field begins with, when they are hexadecimal
HasHexPrefix(f) == Len(f) >= HexLen /\ AllHex(SubSeq(f, 1, HexLen))

\* the trimmed first and fourth field of a dump line with four fields
UserField(raw) == strip(split(raw, ":")[1])
NtlmField(raw) == strip(split(raw, ":")[4])
\* a dump line that parse_pwdump is to take
GoodDumpLine(raw) ==
  /\ strip(raw) # <<>>
  /\ strip(raw)[1] # "#"
  /\ NumColons(raw) >= 3
  /\ HasHexPrefix(NtlmField(raw))
\* the part of a dictionary line before and after its first colon
FirstColon(raw) == Min({i \in 1..Len(raw) : raw[i] = ":"})
HashPart(raw) == strip(SubSeq(raw, 1, FirstColon(raw) - 1))
PasswordPart(raw) == strip(SubSeq(raw, FirstColon(raw) + 1, Len(raw)))
\* a dictionary line that parse_cracked is to take
GoodDictLine(raw) ==
  /\ strip(raw) # <<>>
  /\ strip(raw)[1] # "#"
  /\ NumColons(raw) >= 1
  /\ HasHexPrefix(HashPart(raw))

\* what the properties need of each line of a dump: whether it is to be
\* taken, its user, the 32 characters of its NTLM field as written and
\* their fold
DumpFacts(lines) ==
  [i \in 1..Len(lines) |->
     IF GoodDumpLine(lines[i])
     THEN [good |-> TRUE, user |-> UserField(lines[i]),
           ntlm |-> SubSeq(NtlmField(lines[i]), 1, HexLen),
           key |-> Fold(SubSeq(NtlmField(lines[i]), 1, HexLen))]
     ELSE [good |-> FALSE, user |-> <<>>, ntlm |-> <<>>, key |-> <<>>]]

\* the same of each line of a dictionary, with its password
DictFacts(lines) ==
  [i \in 1..Len(lines) |->
     IF GoodDictLine(lines[i])
     THEN [good |-> TRUE, ntlm |-> SubSeq(HashPart(lines[i]), 1, HexLen),
           key |-> Fold(SubSeq(HashPart(lines[i]), 1, HexLen)),
           pw |-> PasswordPart(lines[i])]
     ELSE [good |-> FALSE, ntlm |-> <<>>, key |-> <<>>, pw |-> <<>>]]

\* the groups, the cracked mapping and the records of a report by the folds
\* of their hashes
GroupFacts(d) == [g \in 1..Len(d) |-> [key |-> Fold(d[g].h), users |-> d[g].users]]
CrackedFacts(c) == {[key |-> Fold(h), pw |-> c[h]] : h \in DOMAIN c}
ReportFacts(R) ==
  [g \in 1..Len(R) |-> [key |-> Fold(R[g].h), users |-> R[g].users, pw |-> R[g].pw]]

(***************************************************************************)
(* The properties.  A property names what it reads back from the state     *)
(* (S: the stream, D: the dictionary, R: the report) by a quantifier over  *)
(* a one-element set.                                                      *)
(***************************************************************************)
\* C1: when main has returned, the hashes of the report are exactly the
\* hashes that are a key of the groups and a key of the cracked mapping;
\* a group of one user is reported when its hash is cracked, a group whose
\* hash is not in the dictionary is not reported.
C1_ReportedIsIntersection ==
  pc = "done" => ReportedHashes = keys(by_hash) \cap DOMAIN cracked

C1_Witness ==
  /\ pc = "done"
  /\ \E RH \in {ReportedHashes} : \E i, j \in 1..Len(by_hash) :
        /\ Len(by_hash[i].users) = 1
        /\ by_hash[i].h \in RH
        /\ by_hash[j].h \notin DOMAIN cracked
        /\ by_hash[j].h \notin RH

\* C2: in the report a group with more usernames comes before a group with
\* fewer, and of two groups with as many usernames the one with the smaller
\* hash string comes first.
C2_ReportOrder ==
  pc = "done" =>
    \A R \in {Reported} : \A a, b \in 1..Len(R) :
       /\ Len(R[a].users) > Len(R[b].users) => a < b
       /\ (Len(R[a].users) = Len(R[b].users) /\ str_lt(R[a].h, R[b].h)) => a < b

\* two groups of the same size that the dump has in the other order, and a
\* larger group with the larger hash
C2_Witness ==
  /\ pc = "done"
  /\ \E R \in {Reported} :
        /\ Len(R) >= 2
        /\ index(by_hash, R[1].h) > index(by_hash, R[2].h)
        /\ \/ Len(R[1].users) = Len(R[2].users)
           \/ Len(R[1].users) > Len(R[2].users) /\ str_lt(R[2].h, R[1].h)

\* C3: every key of the groups and of the cracked mapping is a hash in
\* lower case; while parse_pwdump runs and when it returns, two parsed lines
\* whose NTLM fields differ only in letter case have their users in one
\* group; when main has returned, the user of a dump line whose hash differs
\* only in letter case from the hash of a dictionary line is reported under
\* that hash.
C3_CaseInsensitive ==
  /\ \A h \in keys(by_hash) \cup DOMAIN cracked : NoUpper(h) /\ Len(h) = HexLen
  /\ pc = "parse_pwdump" =>
       \A S \in {DumpFacts(StreamLines)} : \A i, j \in 1..StreamDone :
          (S[i].good /\ S[j].good /\ S[i].key = S[j].key)
          => \E g \in 1..Len(by_hash) :
                /\ in_list(S[i].user, by_hash[g].users)
                /\ in_list(S[j].user, by_hash[g].users)
  /\ pc = "done" =>
       \A S \in {DumpFacts(StreamLines)}, D \in {DictFacts(DictLines)},
          R \in {ReportFacts(Reported)} :
          \A i \in 1..Len(S), j \in 1..Len(D) :
             (S[i].good /\ D[j].good /\ S[i].key = D[j].key)
             => \E g \in 1..Len(R) :
                   R[g].key = D[j].key /\ in_list(S[i].user, R[g].users)

\* dump lines in upper and in lower case, a dictionary line in upper case
C3_Witness ==
  /\ pc = "done"
  /\ \E S \in {DumpFacts(StreamLines)}, D \in {DictFacts(DictLines)}, R \in {Reported} :
        \E i, j \in 1..Len(S), k \in 1..Len(D) :
            /\ S[i].good /\ S[j].good /\ D[k].good
            /\ S[i].ntlm # S[j].ntlm
            /\ CaseEq(S[i].ntlm, S[j].ntlm)
            /\ S[i].user # S[j].user
            /\ ~NoUpper(D[k].ntlm)
            /\ NoUpper(S[j].ntlm)
            /\ CaseEq(S[j].ntlm, D[k].ntlm)
            /\ \E g \in 1..Len(R) :
                  /\ in_list(S[i].user, R[g].users)
                  /\ in_list(S[j].user, R[g].users)

\* the number of lines that the records R take in a report
RECURSIVE RecordLines(_)
RecordLines(R) ==
  IF R = <<>> THEN 0 ELSE Len(R[1].users) + 2 + RecordLines(Tail(R))

\* C4: the report consists of one record per reported group: the usernames
\* of the group, one per line and in the group's order, then one summary
\* line with the lowercase hash, a colon and the password that the cracked
\* mapping has for the hash, then a blank line; every username under a hash
\* has that hash in a line of the dump.
C4_GroupRecords ==
  pc = "done" =>
    \A R \in {Reported}, F \in {DumpFacts(readlines(file_secretsdump))} :
       /\ \A g \in 1..Len(R) :
             /\ NoUpper(R[g].h)
             /\ R[g].h \in keys(by_hash)
             /\ R[g].users = users_of(by_hash, R[g].h)
             /\ R[g].colon = ":"
             /\ R[g].h \in DOMAIN cracked
             /\ R[g].pw = cracked[R[g].h]
             /\ R[g].blank
             /\ \A u \in 1..Len(R[g].users) :
                   \E i \in 1..Len(F) :
                      F[i].good /\ F[i].user = R[g].users[u] /\ CaseEq(F[i].ntlm, R[g].h)
             /\ \A g2 \in 1..Len(R) : g2 # g => R[g2].h # R[g].h
       /\ R # <<>> => Len(split(Report, NL)) = RecordLines(R) + 1

\* two users under one hash, and a user of another hash in the dump
C4_Witness ==
  /\ pc = "done"
  /\ \E R \in {Reported} :
        /\ Len(R) >= 1
        /\ Len(R[1].users) = 2
        /\ R[1].verb = VERB_PLURAL[1]
        /\ NumColons(R[1].pw) = 0
        /\ \E g \in 1..Len(by_hash) :
              /\ by_hash[g].h # R[1].h
              /\ ~in_list(by_hash[g].users[1], R[1].users)

\* C5: while parse_pwdump runs and when it returns, a group holds no
\* username twice, holds exactly the users of the parsed lines with its hash,
\* and holds them in the order of their first lines.
C5_DistinctInOrder ==
  pc = "parse_pwdump" =>
    \A S \in {DumpFacts(StreamLines)}, G \in {GroupFacts(by_hash)} :
       /\ \A i \in 1..StreamDone :
             S[i].good =>
               \E g \in 1..Len(G) : G[g].key = S[i].key /\ in_list(S[i].user, G[g].users)
       /\ \A g \in 1..Len(G) :
             \A p, q \in 1..Len(G[g].users) :
                /\ p # q => G[g].users[p] # G[g].users[q]
                /\ \E i \in 1..StreamDone :
                      /\ S[i].good /\ S[i].key = G[g].key
                      /\ S[i].user = G[g].users[p]
                      /\ p < q =>
                           \A j \in 1..StreamDone :
                              (/\ S[j].good /\ S[j].key = G[g].key
                               /\ S[j].user = G[g].users[q]) => i < j

\* a user, another user, the first user again: the group is the first two
C5_Witness ==
  /\ StreamDone = 3
  /\ \E S \in {DumpFacts(StreamLines)} :
        /\ Len(by_hash) = 1
        /\ S[1].good /\ S[2].good /\ S[3].good
        /\ S[1].user = S[3].user
        /\ S[1].user # S[2].user
        /\ CaseEq(S[1].ntlm, S[2].ntlm) /\ CaseEq(S[1].ntlm, S[3].ntlm)
        /\ by_hash[1].users = <<S[1].user, S[2].user>>

\* C6: while parse_cracked runs and when it returns, the cracked mapping has
\* for a hash the password of the last parsed dictionary line with that
\* hash; when main has returned, the report prints for a hash the password
\* of the last dictionary line with it.
C6_LastWins ==
  /\ pc = "parse_cracked" =>
       \A D \in {DictFacts(DictLines)}, C \in {CrackedFacts(cracked)} :
          \A c \in C :
             \E j \in 1..DictDone :
                /\ D[j].good /\ D[j].key = c.key
                /\ \A k \in (j + 1)..DictDone : ~(D[k].good /\ D[k].key = c.key)
                /\ c.pw = D[j].pw
  /\ pc = "done" =>
       \A D \in {DictFacts(DictLines)}, R \in {ReportFacts(Reported)} :
          \A g \in 1..Len(R) :
             \E j \in 1..Len(D) :
                /\ D[j].good /\ D[j].key = R[g].key
                /\ \A k \in (j + 1)..Len(D) : ~(D[k].good /\ D[k].key = R[g].key)
                /\ R[g].pw = D[j].pw

\* two dictionary lines with one hash and different passwords, reported
C6_Witness ==
  /\ pc = "done"
  /\ \E D \in {DictFacts(DictLines)}, R \in {Reported} :
        /\ Len(D) = 2
        /\ D[1].good /\ D[2].good
        /\ CaseEq(D[1].ntlm, D[2].ntlm)
        /\ D[1].pw # D[2].pw
        /\ Len(R) >= 1
        /\ CaseEq(R[1].h, D[2].ntlm)
        /\ R[1].pw = D[2].pw

\* a dump line that is blank, begins with "#", has fewer than four fields or
\* has no 32 hexadecimal characters at the start of its trimmed fourth field
BadDumpLine(raw) ==
  \/ strip(raw) = <<>>
  \/ raw[1] = "#"
  \/ NumColons(raw) < 3
  \/ ~HasHexPrefix(NtlmField(raw))

\* parse_pwdump over a whole sequence of lines
RECURSIVE parse_pwdump(_, _)
parse_pwdump(d, lines) ==
  IF lines = <<>> THEN d ELSE parse_pwdump(parse_pwdump_line(d, lines[1]), Tail(lines))

\* C7: while parse_pwdump runs and when it returns the groups are those of
\* the parsed lines without the bad ones, and the step of parse_pwdump on a bad line
\* goes on to the next line and leaves the groups as they are.
C7_BadLinesSkipped ==
  /\ [](pc = "parse_pwdump" =>
          by_hash = parse_pwdump(<<>>, SelectSeq(SubSeq(StreamLines, 1, StreamDone),
                                                 LAMBDA l : ~BadDumpLine(l))))
  /\ [][(/\ pc = "parse_pwdump"
         /\ n < Len(StreamLines)
         /\ BadDumpLine(StreamLines[n + 1]))
        => (by_hash' = by_hash /\ n' = n + 1 /\ pc' = pc)]_vars

\* a good line, then a blank line and a line with three fields: one group
C7_Witness ==
  /\ StreamDone = 3
  /\ Len(by_hash) = 1
  /\ ~BadDumpLine(StreamLines[1])
  /\ strip(StreamLines[2]) = <<>>
  /\ NumColons(StreamLines[3]) = 2

\* C8: when main has returned and no hash of the groups is in the cracked
\* mapping, the report has no record, standard output is empty, and the "no
\* matches" message has been written once: with -o to the output file, which
\* is closed, otherwise to standard error.
C8_NoMatches ==
  (pc = "done" /\ keys(by_hash) \cap DOMAIN cracked = {}) =>
     /\ Reported = <<>>
     /\ stdout = <<>>
     /\ IF args_output # None
           THEN file_output = MSG \o <<NL>> /\ stderr = <<>> /\ out_fp = "closed"
           ELSE stderr = MSG \o <<NL>> /\ file_output = <<>> /\ out_fp = None

\* groups and a dictionary without a common hash, with -o
C8_Witness ==
  /\ pc = "done"
  /\ by_hash # <<>>
  /\ DOMAIN cracked # {}
  /\ keys(by_hash) \cap DOMAIN cracked = {}
  /\ args_output # None
  /\ file_output = MSG \o <<NL>>

\* C9: while parse_cracked runs and when it returns, every parsed line with
\* a hash before its first colon has that hash in the cracked mapping, and
\* the password of a hash in the mapping is all that follows the first colon
\* of a parsed line with that hash, trimmed, with the colons in it; when main
\* has returned the report prints such a password.
C9_SplitAtFirstColon ==
  /\ pc = "parse_cracked" =>
       \A D \in {DictFacts(DictLines)}, C \in {CrackedFacts(cracked)} :
          /\ \A j \in 1..DictDone : D[j].good => \E c \in C : c.key = D[j].key
          /\ \A c \in C :
                \E j \in 1..DictDone : D[j].good /\ D[j].key = c.key /\ c.pw = D[j].pw
  /\ pc = "done" =>
       \A D \in {DictFacts(DictLines)}, R \in {ReportFacts(Reported)} :
          \A g \in 1..Len(R) :
             \E j \in 1..Len(D) : D[j].good /\ D[j].key = R[g].key /\ R[g].pw = D[j].pw

\* a password with colons in the report
C9_Witness ==
  /\ pc = "done"
  /\ \E R \in {Reported} :
        /\ Len(R) >= 1
        /\ NumColons(R[1].pw) = 2
        /\ R[1].pw = cracked[R[1].h]

\* <anything>:<digits>:<anything>:<anything>::: with trailing whitespace
\* ignored, on the fields of the line: the line ends with ":::", and a field
\* after the first, with two more fields before the final ":::", is a
\* nonempty string of digits
MatchesPattern(line) ==
  \A parts \in {split(rstrip(line), ":")} :
     /\ Len(parts) >= 7
     /\ parts[Len(parts)] = <<>>
     /\ parts[Len(parts) - 1] = <<>>
     /\ parts[Len(parts) - 2] = <<>>
     /\ \E q \in 2..(Len(parts) - 5) :
           parts[q] # <<>> /\ \A d \in 1..Len(parts[q]) : IsDigit(parts[q][d])

\* C10: while parse_pwdump reads the stream, if a line of the dump matches
\* the pattern the lines of the stream are the matching lines of the dump,
\* without their trailing whitespace and in the dump's order; if none does,
\* the stream is the dump.
C10_StreamChoice ==
  pc = "parse_pwdump" =>
    \A M \in {SelectSeq(split(file_secretsdump, NL), MatchesPattern)} :
       IF M # <<>>
       THEN split(pwdump_stream, NL) = [i \in 1..Len(M) |-> rstrip(M[i])]
       ELSE pwdump_stream = file_secretsdump

\* a line of the dump that parse_pwdump takes but the pattern does not, next
\* to a line that matches: its hash has no group
C10_Witness ==
  /\ pc = "done"
  /\ extracted_lines # <<>>
  /\ \E L \in {split(file_secretsdump, NL)} : \E i, j \in 1..Len(L) :
        /\ MatchesPattern(L[i])
        /\ L[i] # rstrip(L[i])
        /\ ~MatchesPattern(L[j])
        /\ ~BadDumpLine(L[j])
        /\ \A h \in keys(by_hash) : ~CaseEq(h, SubSeq(NtlmField(L[j]), 1, HexLen))

=============================================================================
